---- MODULE Spec2Model ----
(***************************************************************************)
(* The notebooks of DataScientist_Statistics as state machines.  Each      *)
(* notebook runs in a Jupyter kernel whose global namespace outlives the   *)
(* cells; a cell is one operation that reads and binds names in it.  Two   *)
(* kernels are modelled: hyp (Hypothesis Testing - part 2) and ci          *)
(* (Confidence Intervals).                                                 *)
(*                                                                         *)
(* Floating-point numbers are fixed-point integers.  The unit of every     *)
(* quantity is stated where it is computed: Milli = 10^-3, Micro = 10^-6,  *)
(* E7 = 10^-7, Nano = 10^-9.  Products and quotients go through MulDiv,    *)
(* which never leaves the 32-bit integers.  A float that may be nan or     *)
(* +-inf is a record [k, v] (Num, NaN, Inf).                               *)
(***************************************************************************)
EXTENDS Integers, Sequences, FiniteSets, TLC

VARIABLES hyp, ci, cell, error, stdout

vars == <<hyp, ci, cell, error, stdout>>

(***************************************************************************)
(* Fixed-point arithmetic                                                  *)
(***************************************************************************)
Micro == 10^6
Milli == 10^3

\* The largest 32-bit integer, 2^31 - 1.
MaxInt == 2^30 - 1 + 2^30

Abs(x) == IF x < 0 THEN -x ELSE x
Sign(x) == IF x < 0 THEN -1 ELSE IF x > 0 THEN 1 ELSE 0

\* The radix MulDivQR takes b's digits in: the largest of 1024, 32 and 2 that
\* keeps r * radix within the 32-bit integers for every remainder r < c.
Radix(c) == IF c < 2^21 THEN 1024 ELSE IF c < 2^26 THEN 32 ELSE 2

\* <<q, r>> with a*b = q*c + r and 0 <= r < c, for a, b >= 0 and 0 < c < 2^30,
\* one digit of b at a time: no intermediate value leaves the 32-bit integers
\* when the quotient does not.
RECURSIVE MulDivQR(_, _, _)
MulDivQR(a, b, c) ==
    IF b = 0 THEN <<0, 0>>
    ELSE LET R == Radix(c)
             h == MulDivQR(a, b \div R, c)
             hi == h[2] * R
             lo == (a % c) * (b % R)
             r == (hi % c) + (lo % c)
         IN <<h[1] * R + (hi \div c) + (a \div c) * (b % R) + (lo \div c)
                + (IF r >= c THEN 1 ELSE 0),
              IF r >= c THEN r - c ELSE r>>

\* a*b/c rounded to nearest, sign kept (c > 0).
MulDiv(a, b, c) ==
    LET qr == MulDivQR(Abs(a), Abs(b), c)
    IN Sign(a) * Sign(b) * (qr[1] + (IF 2 * qr[2] >= c THEN 1 ELSE 0))

\* Integer square root of x >= 0 (Newton, from above).
RECURSIVE ISqrtFrom(_, _)
ISqrtFrom(x, r) ==
    LET r2 == (r + x \div r) \div 2
    IN IF r2 >= r THEN r ELSE ISqrtFrom(x, r2)

ISqrt(x) ==
    IF x < 2 THEN x
    ELSE ISqrtFrom(x, IF x < 10^4 THEN 100 ELSE IF x < 10^7 THEN 3163 ELSE 46340)

\* sqrt(x * s) for x >= 0 and s a power of 10: exact (floor) when x * s is a
\* 32-bit integer, else to the digits a 32-bit radicand holds (4 or more).
RECURSIVE SqrtScaled(_, _)
SqrtScaled(x, s) ==
    IF x <= MaxInt \div s THEN ISqrt(x * s)
    ELSE IF s >= 100 THEN 10 * SqrtScaled(x, s \div 100)
    ELSE 10 * SqrtScaled(x \div 100, s)

\* Round x (in units 1/from) half up to units 1/to, to dividing from.
RoundTo(x, from, to) ==
    LET k == from \div to
        a == Abs(x)
    IN Sign(x) * ((a + k \div 2) \div k)

(***************************************************************************)
(* Floats that may be nan or infinite                                      *)
(***************************************************************************)
Num(v) == [k |-> "num", v |-> v]
NaN == [k |-> "nan", v |-> 0]
Inf(sgn) == [k |-> "inf", v |-> sgn]

IsNum(f) == f.k = "num"

\* f < g as IEEE 754 orders it: false when either side is nan.
FLt(f, g) ==
    CASE f.k = "nan" \/ g.k = "nan" -> FALSE
      [] f.k = "num" /\ g.k = "num" -> f.v < g.v
      [] f.k = "inf" /\ g.k = "num" -> f.v < 0
      [] f.k = "num" /\ g.k = "inf" -> g.v > 0
      [] OTHER -> f.v < g.v

\* f * d / unit for a float f and a number d, as IEEE 754 multiplies.
FScale(f, d, unit) ==
    CASE f.k = "num" -> Num(MulDiv(f.v, d, unit))
      [] f.k = "inf" -> IF d = 0 THEN NaN ELSE Inf(f.v * Sign(d))
      [] OTHER -> NaN

\* y - g for a number y and a float g.
FSubFrom(y, g) ==
    CASE g.k = "num" -> Num(y - g.v)
      [] g.k = "inf" -> Inf(-g.v)
      [] OTHER -> NaN

\* f - g for floats f and g.
FSub(f, g) ==
    CASE f.k = "num" -> FSubFrom(f.v, g)
      [] f.k = "inf" /\ g.k = "num" -> f
      [] f.k = "inf" /\ g.k = "inf" /\ f.v # g.v -> f
      [] OTHER -> NaN

\* num / den for numbers, in units 1/unit: nan for 0/0, +-inf for x/0.
FDiv(num, den, unit) ==
    IF den # 0 THEN Num(MulDiv(num, unit, Abs(den)) * Sign(den))
    ELSE IF num = 0 THEN NaN ELSE Inf(Sign(num))

(***************************************************************************)
(* numpy reductions over arrays (sequences of numbers in one unit)         *)
(***************************************************************************)
RECURSIVE Sum(_)
Sum(s) == IF s = << >> THEN 0 ELSE Head(s) + Sum(Tail(s))

\* np.mean
Mean(s) == MulDiv(Sum(s), 1, Len(s))

\* The sum of (x - mean(x)) * (y - mean(y)), in the unit of the elements.
CoMoment(x, y, unit) ==
    LET mx == Mean(x)
        my == Mean(y)
    IN Sum([i \in 1 .. Len(x) |-> MulDiv(x[i] - mx, y[i] - my, unit)])

\* np.var(s, ddof=ddof): nan when ddof leaves no degree of freedom.
Var(s, ddof, unit) ==
    IF Len(s) - ddof <= 0 THEN NaN
    ELSE Num(MulDiv(CoMoment(s, s, unit), 1, Len(s) - ddof))

\* np.cov(x, y)[0, 1]: the sample covariance (ddof = 1).
Cov(x, y, unit) ==
    IF Len(x) - 1 <= 0 THEN NaN
    ELSE Num(MulDiv(CoMoment(x, y, unit), 1, Len(x) - 1))

\* np.std(s, ddof=ddof)
Std(s, ddof, unit) ==
    LET v == Var(s, ddof, unit)
    IN IF IsNum(v) THEN Num(SqrtScaled(v.v, unit)) ELSE NaN

\* np.var of an array of floats: nan as soon as an element is not a number.
VarF(s, ddof, unit) ==
    IF \A i \in 1 .. Len(s) : IsNum(s[i])
    THEN Var([i \in 1 .. Len(s) |-> s[i].v], ddof, unit)
    ELSE NaN

(***************************************************************************)
(* scipy.stats distributions                                               *)
(***************************************************************************)
\* stats.norm.cdf at 0.00, 0.01, ..., 5.00, in Micro.
NormCdfTable == <<
    500000, 503989, 507978, 511966, 515953, 519939, 523922, 527903, 531881, 535856,
    539828, 543795, 547758, 551717, 555670, 559618, 563559, 567495, 571424, 575345,
    579260, 583166, 587064, 590954, 594835, 598706, 602568, 606420, 610261, 614092,
    617911, 621720, 625516, 629300, 633072, 636831, 640576, 644309, 648027, 651732,
    655422, 659097, 662757, 666402, 670031, 673645, 677242, 680822, 684386, 687933,
    691462, 694974, 698468, 701944, 705401, 708840, 712260, 715661, 719043, 722405,
    725747, 729069, 732371, 735653, 738914, 742154, 745373, 748571, 751748, 754903,
    758036, 761148, 764238, 767305, 770350, 773373, 776373, 779350, 782305, 785236,
    788145, 791030, 793892, 796731, 799546, 802337, 805105, 807850, 810570, 813267,
    815940, 818589, 821214, 823814, 826391, 828944, 831472, 833977, 836457, 838913,
    841345, 843752, 846136, 848495, 850830, 853141, 855428, 857690, 859929, 862143,
    864334, 866500, 868643, 870762, 872857, 874928, 876976, 879000, 881000, 882977,
    884930, 886861, 888768, 890651, 892512, 894350, 896165, 897958, 899727, 901475,
    903200, 904902, 906582, 908241, 909877, 911492, 913085, 914657, 916207, 917736,
    919243, 920730, 922196, 923641, 925066, 926471, 927855, 929219, 930563, 931888,
    933193, 934478, 935745, 936992, 938220, 939429, 940620, 941792, 942947, 944083,
    945201, 946301, 947384, 948449, 949497, 950529, 951543, 952540, 953521, 954486,
    955435, 956367, 957284, 958185, 959070, 959941, 960796, 961636, 962462, 963273,
    964070, 964852, 965620, 966375, 967116, 967843, 968557, 969258, 969946, 970621,
    971283, 971933, 972571, 973197, 973810, 974412, 975002, 975581, 976148, 976705,
    977250, 977784, 978308, 978822, 979325, 979818, 980301, 980774, 981237, 981691,
    982136, 982571, 982997, 983414, 983823, 984222, 984614, 984997, 985371, 985738,
    986097, 986447, 986791, 987126, 987455, 987776, 988089, 988396, 988696, 988989,
    989276, 989556, 989830, 990097, 990358, 990613, 990863, 991106, 991344, 991576,
    991802, 992024, 992240, 992451, 992656, 992857, 993053, 993244, 993431, 993613,
    993790, 993963, 994132, 994297, 994457, 994614, 994766, 994915, 995060, 995201,
    995339, 995473, 995604, 995731, 995855, 995975, 996093, 996207, 996319, 996427,
    996533, 996636, 996736, 996833, 996928, 997020, 997110, 997197, 997282, 997365,
    997445, 997523, 997599, 997673, 997744, 997814, 997882, 997948, 998012, 998074,
    998134, 998193, 998250, 998305, 998359, 998411, 998462, 998511, 998559, 998605,
    998650, 998694, 998736, 998777, 998817, 998856, 998893, 998930, 998965, 998999,
    999032, 999065, 999096, 999126, 999155, 999184, 999211, 999238, 999264, 999289,
    999313, 999336, 999359, 999381, 999402, 999423, 999443, 999462, 999481, 999499,
    999517, 999534, 999550, 999566, 999581, 999596, 999610, 999624, 999638, 999651,
    999663, 999675, 999687, 999698, 999709, 999720, 999730, 999740, 999749, 999758,
    999767, 999776, 999784, 999792, 999800, 999807, 999815, 999822, 999828, 999835,
    999841, 999847, 999853, 999858, 999864, 999869, 999874, 999879, 999883, 999888,
    999892, 999896, 999900, 999904, 999908, 999912, 999915, 999918, 999922, 999925,
    999928, 999931, 999933, 999936, 999938, 999941, 999943, 999946, 999948, 999950,
    999952, 999954, 999956, 999958, 999959, 999961, 999963, 999964, 999966, 999967,
    999968, 999970, 999971, 999972, 999973, 999974, 999975, 999976, 999977, 999978,
    999979, 999980, 999981, 999982, 999983, 999983, 999984, 999985, 999985, 999986,
    999987, 999987, 999988, 999988, 999989, 999989, 999990, 999990, 999991, 999991,
    999991, 999992, 999992, 999993, 999993, 999993, 999993, 999994, 999994, 999994,
    999995, 999995, 999995, 999995, 999996, 999996, 999996, 999996, 999996, 999996,
    999997, 999997, 999997, 999997, 999997, 999997, 999997, 999998, 999998, 999998,
    999998, 999998, 999998, 999998, 999998, 999998, 999998, 999998, 999999, 999999,
    999999, 999999, 999999, 999999, 999999, 999999, 999999, 999999, 999999, 999999,
    999999, 999999, 999999, 999999, 999999, 999999, 999999, 999999, 999999, 999999,
    1000000, 1000000, 1000000, 1000000, 1000000, 1000000, 1000000, 1000000, 1000000, 1000000,
    1000000 >>

\* stats.norm.cdf(z) for z >= 0 in Milli, result in Micro: the table, linear
\* between its points, 1 beyond its end.
NormCdf(z) ==
    LET i == z \div 10
        f == z % 10
    IN IF i >= Len(NormCdfTable) - 1 THEN Micro
       ELSE NormCdfTable[i + 1]
              + ((NormCdfTable[i + 2] - NormCdfTable[i + 1]) * f) \div 10

\* The index i of the table with table[i] <= p < table[i + 1], lo <= i < hi.
RECURSIVE CdfIndex(_, _, _)
CdfIndex(p, lo, hi) ==
    IF hi - lo <= 1 THEN lo
    ELSE LET mid == (lo + hi) \div 2
         IN IF NormCdfTable[mid] <= p THEN CdfIndex(p, mid, hi) ELSE CdfIndex(p, lo, mid)

\* The quantile of p, 1/2 <= p < 1 in Micro, result in Micro: the inverse of
\* the table, linear between its points.
NormPpfUpper(p) ==
    LET i == CdfIndex(p, 1, Len(NormCdfTable))
        step == NormCdfTable[i + 1] - NormCdfTable[i]
    IN (i - 1) * 10^4 + (IF step = 0 THEN 0 ELSE ((p - NormCdfTable[i]) * 10^4) \div step)

\* stats.norm.ppf(p) for 0 < p < 1 in Micro, result in Micro.
NormPpf(p) == IF 2 * p >= Micro THEN NormPpfUpper(p) ELSE -NormPpfUpper(Micro - p)

(***************************************************************************)
(* Hypothesis Testing - part 2: the A/B test cell                          *)
(***************************************************************************)
REJECT_NULL == "Reject H0"
FAIL_TO_REJECT == "Fail to reject H0"

\* conv / n, in Micro.
Proportion(conv, n) == MulDiv(conv, Micro, n)

\* np.sqrt((p * (1 - p)) / n) for p in Micro, in E7 = 10^-7 (p(1-p)/n is
\* taken in Nano).
StdErr(p, n) == SqrtScaled(MulDiv(MulDiv(p, Micro - p, Micro), Milli, n), 10^5)

\* SeDiff with the difference of the squares where the code takes their sum.
SeDiffOfDifference(se_A, se_B) ==
    SqrtScaled(Abs(MulDiv(se_A, se_A, 10^5) - MulDiv(se_B, se_B, 10^5)), 10^5)

\* np.sqrt(se_A**2 + se_B**2), in E7 (the squares in Nano).
SeDiff(se_A, se_B) ==
    SqrtScaled(MulDiv(se_A, se_A, 10^5) + MulDiv(se_B, se_B, 10^5), 10^5)

\* ZScore with the groups swapped in the numerator.
ZScoreSwapped(p_A, p_B, se_diff) == FDiv(p_A - p_B, se_diff, 10^4)

\* (p_B - p_A) / se_diff, a float in Milli: numpy divides by zero to nan
\* (0/0) or to an infinity.
ZScore(p_A, p_B, se_diff) == FDiv(p_B - p_A, se_diff, 10^4)

\* PValue with one tail only.
PValueOneTailed(z_score) ==
    CASE z_score.k = "num" -> Num(Micro - NormCdf(Abs(z_score.v)))
      [] z_score.k = "inf" -> Num(0)
      [] OTHER -> NaN

\* PValue without the absolute value of z_score.
PValueSigned(z_score) ==
    CASE z_score.k = "num" ->
            Num(IF z_score.v >= 0 THEN 2 * (Micro - NormCdf(z_score.v))
                ELSE 2 * NormCdf(-z_score.v))
      [] z_score.k = "inf" -> Num(IF z_score.v > 0 THEN 0 ELSE 2 * Micro)
      [] OTHER -> NaN

\* 2 * (1 - stats.norm.cdf(abs(z_score))), a float in Micro.
PValue(z_score) ==
    CASE z_score.k = "num" -> Num(2 * (Micro - NormCdf(Abs(z_score.v))))
      [] z_score.k = "inf" -> Num(0)
      [] OTHER -> NaN

\* The names the cell binds before its prints, from the scenario data.
ABTest(n_A, n_B, conv_A, conv_B) ==
    LET p_A == Proportion(conv_A, n_A)
        p_B == Proportion(conv_B, n_B)
        se_A == StdErr(p_A, n_A)
        se_B == StdErr(p_B, n_B)
        se_diff == SeDiff(se_A, se_B)
        z_score == ZScore(p_A, p_B, se_diff)
    IN [n_A |-> n_A, n_B |-> n_B, conv_A |-> conv_A, conv_B |-> conv_B,
        p_A |-> p_A, p_B |-> p_B, se_A |-> se_A, se_B |-> se_B,
        se_diff |-> se_diff, z_score |-> z_score, p_value |-> PValue(z_score)]

\* Decision with the tie sent to the rejection.
DecisionTieRejects(p_value, alpha) ==
    IF FLt(p_value, Num(alpha + 1)) THEN REJECT_NULL ELSE FAIL_TO_REJECT

\* if p_value < alpha: ... else: ...
Decision(p_value, alpha) ==
    IF FLt(p_value, Num(alpha)) THEN REJECT_NULL ELSE FAIL_TO_REJECT

\* f-string rounding of a float given in units 1/from to units 1/to.
Fmt(f, from, to) == IF IsNum(f) THEN Num(RoundTo(f.v, from, to)) ELSE f

\* ns with the names of the record b bound (rebound when already there).
Bind(ns, b) == b @@ ns

Init ==
    /\ hyp = << >>
    /\ ci = << >>
    /\ cell = "imports"
    /\ error = "none"
    /\ stdout = << >>

\* ABTestCell deciding on the p_value the kernel already holds, when it
\* holds one.
ABTestCellStale(Data, Levels) ==
    \E d \in Data, alpha \in Levels :
        LET b == ABTest(d.n_A, d.n_B, d.conv_A, d.conv_B)
            p == IF "p_value" \in DOMAIN hyp THEN hyp.p_value ELSE b.p_value
        IN /\ hyp' = Bind(hyp, [alpha |-> alpha] @@ b)
           /\ stdout' = [p_A |-> RoundTo(b.p_A, Micro, 10^4),
                         p_B |-> RoundTo(b.p_B, Micro, 10^4),
                         z_score |-> Fmt(b.z_score, Milli, 10^2),
                         p_value |-> Fmt(b.p_value, Micro, 10^4),
                         conclusion |-> Decision(p, alpha)]
           /\ cell' = "ABTest"
           /\ error' = "none"
           /\ UNCHANGED ci

\* The A/B test cell on scenario data d (sizes >= 1, 0 <= conversions <= size)
\* and significance level alpha (Micro).
ABTestCell(Data, Levels) ==
    \E d \in Data, alpha \in Levels :
        LET b == ABTest(d.n_A, d.n_B, d.conv_A, d.conv_B)
        IN /\ hyp' = Bind(hyp, [alpha |-> alpha] @@ b)
           /\ stdout' = [p_A |-> RoundTo(b.p_A, Micro, 10^4),
                         p_B |-> RoundTo(b.p_B, Micro, 10^4),
                         z_score |-> Fmt(b.z_score, Milli, 10^2),
                         p_value |-> Fmt(b.p_value, Micro, 10^4),
                         conclusion |-> Decision(b.p_value, alpha)]
           /\ cell' = "ABTest"
           /\ error' = "none"
           /\ UNCHANGED ci

(***************************************************************************)
(* Minimum Detectable Effect                                               *)
(***************************************************************************)
\* The baseline proportion 0.5 of the standard error, in Micro.
BaselineProportion == 500000

\* BaselineSE with the division by n outside the square root.
BaselineSEOutside(n) ==
    MulDiv(SqrtScaled(MulDiv(BaselineProportion, Micro - BaselineProportion, Micro),
                      10^8), 1, n)

\* np.sqrt((0.5 * (1 - 0.5)) / n), in E7.
BaselineSE(n) == StdErr(BaselineProportion, n)

\* Sqrt2 without the square root.
TwoForSqrt2 == 2 * Micro

\* np.sqrt(2), in Micro.
Sqrt2 == SqrtScaled(2 * Micro, Micro)

\* MDE with the factor sqrt(2/n) of the notebook's text on the standard error.
MDETextFormula(n, alpha, power) ==
    LET z_alpha == NormPpf(Micro - alpha \div 2)
        z_power == NormPpf(power)
        se == BaselineSE(n)
        mde == MulDiv(MulDiv(z_alpha + z_power, se, 10^7),
                      SqrtScaled(MulDiv(2 * Micro, 1, n), Micro), Micro)
    IN [n |-> n, alpha |-> alpha, power |-> power, z_alpha |-> z_alpha,
        z_power |-> z_power, se |-> se, mde |-> mde]

\* The names the MDE cell binds: alpha, power, z_alpha, z_power, mde in Micro,
\* se in E7.
MDE(n, alpha, power) ==
    LET z_alpha == NormPpf(Micro - alpha \div 2)
        z_power == NormPpf(power)
        se == BaselineSE(n)
        mde == MulDiv(MulDiv(z_alpha + z_power, se, 10^7), Sqrt2, Micro)
    IN [n |-> n, alpha |-> alpha, power |-> power, z_alpha |-> z_alpha,
        z_power |-> z_power, se |-> se, mde |-> mde]

MDECell(Sizes, Levels, Powers) ==
    \E n \in Sizes, alpha \in Levels, power \in Powers :
        LET b == MDE(n, alpha, power)
        IN /\ hyp' = Bind(hyp, b)
           /\ stdout' = [mde |-> RoundTo(b.mde, Micro, 10^4)]
           /\ cell' = "MDE"
           /\ error' = "none"
           /\ UNCHANGED ci

OriginalSampleSize == 5000

\* NewMDE on original_sample_size where the code reads new_sample_size.
NewMDEOriginalSize(z_alpha, z_power, new_sample_size) ==
    MulDiv(MulDiv(z_alpha + z_power, BaselineSE(OriginalSampleSize), 10^7), Sqrt2, Micro)

\* new_mde of the cell that doubles the sample size, in Micro, from the
\* z_alpha and z_power the kernel holds.
NewMDE(z_alpha, z_power, new_sample_size) ==
    MulDiv(MulDiv(z_alpha + z_power, BaselineSE(new_sample_size), 10^7), Sqrt2, Micro)

\* DoublingCell falling back on the critical values of alpha = 0.05 and
\* power = 0.8 when the kernel holds none.
DoublingCellDefaults(Sizes) ==
    \E new_sample_size \in Sizes :
        LET sizes == [original_sample_size |-> OriginalSampleSize,
                      new_sample_size |-> new_sample_size]
            bound == {"z_alpha", "z_power"} \subseteq DOMAIN hyp
            z_alpha == IF bound THEN hyp.z_alpha ELSE NormPpf(975000)
            z_power == IF bound THEN hyp.z_power ELSE NormPpf(800000)
            new_mde == NewMDE(z_alpha, z_power, new_sample_size)
        IN /\ cell' = "Doubling"
           /\ UNCHANGED ci
           /\ hyp' = Bind(hyp, [new_mde |-> new_mde] @@ sizes)
           /\ stdout' = [new_mde |-> RoundTo(new_mde, Micro, 10^4),
                         percent |-> RoundTo(new_mde, Micro, 10^6)]
           /\ error' = "none"

\* The cell binds its two sizes, then reads z_alpha and z_power: a NameError
\* when the MDE cell has not bound them.
DoublingCell(Sizes) ==
    \E new_sample_size \in Sizes :
        LET sizes == [original_sample_size |-> OriginalSampleSize,
                      new_sample_size |-> new_sample_size]
        IN /\ cell' = "Doubling"
           /\ UNCHANGED ci
           /\ IF {"z_alpha", "z_power"} \subseteq DOMAIN hyp
              THEN LET new_mde == NewMDE(hyp.z_alpha, hyp.z_power, new_sample_size)
                   IN /\ hyp' = Bind(hyp, [new_mde |-> new_mde] @@ sizes)
                      /\ stdout' = [new_mde |-> RoundTo(new_mde, Micro, 10^4),
                                    percent |-> RoundTo(new_mde, Micro, 10^6)]
                      /\ error' = "none"
              ELSE /\ hyp' = Bind(hyp, sizes)
                   /\ stdout' = << >>
                   /\ error' = "NameError"

(***************************************************************************)
(* CUPED and CUPAC (arrays in Milli, theta in Micro)                       *)
(***************************************************************************)
\* Adjust with the correction added where the code subtracts it.
AdjustAdded(Y, theta, X) ==
    LET m == Mean(X)
    IN [i \in 1 .. Len(Y) |-> FSub(Y[i], FScale(theta, m - X[i], Micro))]

\* Adjust without the centring of X: Y - theta * X.
AdjustUncentred(Y, theta, X) ==
    [i \in 1 .. Len(Y) |-> FSub(Y[i], FScale(theta, X[i], Micro))]

\* Y - theta * (X - np.mean(X)), elementwise: an array of floats.
Adjust(Y, theta, X) ==
    LET m == Mean(X)
    IN [i \in 1 .. Len(Y) |-> FSub(Y[i], FScale(theta, X[i] - m, Micro))]

\* Theta over the variance of the outcome Y.
ThetaOverOutcome(X, Y) ==
    LET c == Cov(X, Y, Milli)
        v == Var(Y, 0, Milli)
    IN IF IsNum(c) THEN FDiv(c.v, v.v, Micro) ELSE NaN

\* theta = np.cov(X, Y)[0, 1] / np.var(X): the covariance with ddof = 1 over
\* the variance with ddof = 0.
Theta(X, Y) ==
    LET c == Cov(X, Y, Milli)
        v == Var(X, 0, Milli)
    IN IF IsNum(c) THEN FDiv(c.v, v.v, Micro) ELSE NaN

Floats(s) == [i \in 1 .. Len(s) |-> Num(s[i])]

\* The names the CUPED cell binds from the pre-experiment data X and the
\* noise that makes the post-experiment metric Y of it.
CUPED(X, noise) ==
    LET Y == [i \in 1 .. Len(X) |-> X[i] + noise[i]]
        theta == Theta(X, Y)
    IN [X |-> X, Y |-> Y, theta |-> theta, Y_adj |-> Adjust(Floats(Y), theta, X)]

CUPEDCell(Pairs) ==
    \E d \in Pairs :
        LET b == CUPED(d.X, d.noise)
        IN /\ hyp' = Bind(hyp, b)
           /\ stdout' = [before |-> Fmt(Var(b.Y, 0, Milli), Milli, 10^2),
                         after |-> Fmt(VarF(b.Y_adj, 0, Milli), Milli, 10^2)]
           /\ cell' = "CUPED"
           /\ error' = "none"
           /\ UNCHANGED ci

\* The cell written with an in-place update (Y_adj -= ...), so that Y_adj is
\* the array it adjusts.
CUPACCellInPlace(Covariates) ==
    \E covariate \in Covariates :
        /\ "X" \in DOMAIN hyp => Len(covariate) = Len(hyp.X)
        /\ cell' = "CUPAC"
        /\ UNCHANGED ci
        /\ IF {"Y_adj", "theta"} \subseteq DOMAIN hyp
           THEN LET Y_adj_cupac == Adjust(hyp.Y_adj, hyp.theta, covariate)
                IN /\ hyp' = Bind(hyp, [covariate |-> covariate,
                                        Y_adj |-> Y_adj_cupac,
                                        Y_adj_cupac |-> Y_adj_cupac])
                   /\ stdout' = [after |-> Fmt(VarF(Y_adj_cupac, 0, Milli), Milli, 10^2)]
                   /\ error' = "none"
           ELSE /\ hyp' = Bind(hyp, [covariate |-> covariate])
                /\ stdout' = << >>
                /\ error' = "NameError"

\* The cell draws its covariate (as long as the arrays of the CUPED cell:
\* the draws share the size literal), then reads Y_adj and theta: a NameError
\* when the CUPED cell has not bound them.
CUPACCell(Covariates) ==
    \E covariate \in Covariates :
        /\ "X" \in DOMAIN hyp => Len(covariate) = Len(hyp.X)
        /\ cell' = "CUPAC"
        /\ UNCHANGED ci
        /\ IF {"Y_adj", "theta"} \subseteq DOMAIN hyp
           THEN LET Y_adj_cupac == Adjust(hyp.Y_adj, hyp.theta, covariate)
                IN /\ hyp' = Bind(hyp, [covariate |-> covariate,
                                        Y_adj_cupac |-> Y_adj_cupac])
                   /\ stdout' = [after |-> Fmt(VarF(Y_adj_cupac, 0, Milli), Milli, 10^2)]
                   /\ error' = "none"
           ELSE /\ hyp' = Bind(hyp, [covariate |-> covariate])
                /\ stdout' = << >>
                /\ error' = "NameError"

(***************************************************************************)
(* Delta method                                                            *)
(***************************************************************************)
\* The sum of p/k + p*y^2/(k+2) + ... (Micro) until a term rounds to zero:
\* atanh(y) when p = y and k = 1, for |y| < 1.
RECURSIVE AtanhSeries(_, _, _)
AtanhSeries(p, y, k) ==
    IF 2 * Abs(p) < k THEN 0
    ELSE MulDiv(p, 1, k) + AtanhSeries(MulDiv(MulDiv(p, y, Micro), y, Micro), y, k + 2)

\* np.log of x (Milli), in Micro, as 2 * atanh((x - 1) / (x + 1)): nan below
\* zero and -inf at zero (numpy warns and does not raise).
Log(x) ==
    IF x < 0 THEN NaN
    ELSE IF x = 0 THEN Inf(-1)
    ELSE LET y == MulDiv(x - Milli, Micro, x + Milli)
         IN Num(2 * AtanhSeries(y, y, 1))

\* transformed_metric = np.log(original_metric), elementwise.
Transform(original_metric) ==
    [i \in 1 .. Len(original_metric) |-> Log(original_metric[i])]

\* The variance of the untransformed metric over its length (Micro).
EstimatedVarianceRaw(transformed_metric, original_metric) ==
    FScale(Var(original_metric, 0, Milli), Milli, Len(original_metric))

\* estimated_variance = np.var(transformed_metric) / len(original_metric)
EstimatedVariance(transformed_metric, original_metric) ==
    FScale(VarF(transformed_metric, 0, Micro), 1, Len(original_metric))

DeltaMethodCell(Metrics) ==
    \E original_metric \in Metrics :
        LET transformed_metric == Transform(original_metric)
            estimated_variance == EstimatedVariance(transformed_metric, original_metric)
        IN /\ hyp' = Bind(hyp, [original_metric |-> original_metric,
                                transformed_metric |-> transformed_metric,
                                estimated_variance |-> estimated_variance])
           /\ stdout' = [estimated_variance |-> Fmt(estimated_variance, Micro, 10^6)]
           /\ cell' = "DeltaMethod"
           /\ error' = "none"
           /\ UNCHANGED ci

(***************************************************************************)
(* Ratio metrics                                                           *)
(***************************************************************************)
\* stats.ttest_ind on the two ratio arrays: the statistic t_stat (Milli) is
\* what the random draws make it; with 9998 degrees of freedom its two-sided
\* p-value is the normal one.  The cell rebinds p_value.
RatioMetricsCell(Stats) ==
    \E t_stat \in Stats :
        LET p_value == Num(2 * (Micro - NormCdf(Abs(t_stat))))
        IN /\ hyp' = Bind(hyp, [t_stat |-> t_stat, p_value |-> p_value])
           /\ stdout' = [t_stat |-> RoundTo(t_stat, Milli, 10^3),
                         p_value |-> Fmt(p_value, Micro, 10^4)]
           /\ cell' = "RatioMetrics"
           /\ error' = "none"
           /\ UNCHANGED ci

(***************************************************************************)
(* Chi-square test: the statistic of the README, the failures of the       *)
(* specification                                                           *)
(***************************************************************************)
\* The sum of (O - E)^2 / E over the paired entries, in Milli, for expected
\* entries that are not zero.
ChiSquareStatistic(observed, expected) ==
    Sum([i \in 1 .. Len(observed) |->
            MulDiv((observed[i] - expected[i]) * (observed[i] - expected[i]),
                   Milli, Abs(expected[i])) * Sign(expected[i])])

\* The test dividing as numpy divides: x/0 is infinite, 0/0 is nan, and
\* nothing fails.
ChiSquareUnguarded(observed, expected) ==
    IF Len(observed) # Len(expected)
    THEN [error |-> "DimensionMismatchError", result |-> << >>]
    ELSE IF \E i \in 1 .. Len(expected) : expected[i] = 0
    THEN [error |-> "none",
          result |-> [statistic |->
                        IF \E i \in 1 .. Len(expected) :
                              expected[i] = 0 /\ observed[i] = 0
                        THEN NaN ELSE Inf(1)]]
    ELSE [error |-> "none",
          result |-> [statistic |-> Num(ChiSquareStatistic(observed, expected))]]

\* chiSquareTest on paired sequences of counts: what it fails with, or the
\* statistic it returns.
ChiSquare(observed, expected) ==
    IF Len(observed) # Len(expected)
    THEN [error |-> "DimensionMismatchError", result |-> << >>]
    ELSE IF \E i \in 1 .. Len(expected) : expected[i] = 0
    THEN [error |-> "DivisionByZeroError", result |-> << >>]
    ELSE [error |-> "none",
          result |-> [statistic |-> Num(ChiSquareStatistic(observed, expected))]]

\* A call of the test on the observed and expected counts of its caller.
ChiSquareTest(Tables) ==
    \E d \in Tables :
        LET r == ChiSquare(d.observed, d.expected)
        IN /\ hyp' = Bind(hyp, [observed |-> d.observed, expected |-> d.expected])
           /\ stdout' = r.result
           /\ cell' = "ChiSquare"
           /\ error' = r.error
           /\ UNCHANGED ci

(***************************************************************************)
(* Confidence Intervals (data, means, margins and bounds in Micro)         *)
(***************************************************************************)
\* Arithmetic of floats that are numbers or nan: f + g, f * g / unit,
\* f * unit / g, and np.sqrt(f + g) for f, g in Micro.
FAdd(f, g) == IF IsNum(f) /\ IsNum(g) THEN Num(f.v + g.v) ELSE NaN

FMulDiv(f, g, unit) == IF IsNum(f) /\ IsNum(g) THEN Num(MulDiv(f.v, g.v, unit)) ELSE NaN

FQuot(f, unit, g) == IF IsNum(f) /\ IsNum(g) THEN Num(MulDiv(f.v, unit, g.v)) ELSE NaN

FSqrtSum(f, g) == IF IsNum(f) /\ IsNum(g) THEN Num(SqrtScaled(f.v + g.v, Micro)) ELSE NaN

\* The probability 0.975 the critical values of the notebook are taken at
\* (the 95% confidence level), in Micro.
CriticalProbability == 975000

\* stats.t.ppf(0.975, df), in Micro: nan when df is not positive.
TPpf975(df) ==
    CASE df <= 0 -> NaN
      [] df = 1 -> Num(12706205)
      [] df = 2 -> Num(4302653)
      [] df = 3 -> Num(3182446)
      [] df = 4 -> Num(2776445)
      [] df = 5 -> Num(2570582)
      [] df = 6 -> Num(2446912)
      [] df = 7 -> Num(2364624)
      [] df = 8 -> Num(2306004)
      [] df = 9 -> Num(2262157)
      [] df = 10 -> Num(2228139)
      [] df = 198 -> Num(1972017)

\* np.sqrt(n) for a count n, in units of 10^-4.
SqrtN(n) == SqrtScaled(n, 10^8)

\* MarginOfError dividing by n where the code divides by its square root.
MarginOfErrorLinear(z, sigma, n) == MulDiv(z, MulDiv(sigma, 1, n), Micro)

\* z * (sigma / np.sqrt(n)) for a critical value z and sigma in Micro.
MarginOfError(z, sigma, n) == MulDiv(z, MulDiv(sigma, 10^4, SqrtN(n)), Micro)

\* np.arange(10, 300, 10) and the population standard deviation 10 of the
\* margin-of-error cell.
ArangeStart == 10
ArangeStop == 300
ArangeStep == 10
AssumedSigma == 10

\* The cell that plots the margin of error against the sample size.
MarginCell ==
    LET count == (ArangeStop - ArangeStart + ArangeStep - 1) \div ArangeStep
        sample_sizes == [i \in 1 .. count |-> ArangeStart + (i - 1) * ArangeStep]
        moe_values == [i \in 1 .. count |->
                          MarginOfError(NormPpf(CriticalProbability),
                                        AssumedSigma * Micro, sample_sizes[i])]
    IN /\ ci' = Bind(ci, [sample_sizes |-> sample_sizes, moe_values |-> moe_values])
       /\ stdout' = << >>
       /\ cell' = "Margin"
       /\ error' = "none"
       /\ UNCHANGED hyp

\* ZInterval with the margin added on both sides.
ZIntervalOneSided(data, sigma) ==
    LET mean_sample == Mean(data)
        n == Len(data)
        z_score == NormPpf(CriticalProbability)
        margin_of_error == MarginOfError(z_score, sigma, n)
    IN [data |-> data, mean_sample |-> mean_sample, sigma |-> sigma, n |-> n,
        z_score |-> z_score, margin_of_error |-> margin_of_error,
        ci_lower |-> mean_sample, ci_upper |-> mean_sample + 2 * margin_of_error]

\* The names the Z-score cell binds from its sample and the known population
\* standard deviation.
ZInterval(data, sigma) ==
    LET mean_sample == Mean(data)
        n == Len(data)
        z_score == NormPpf(CriticalProbability)
        margin_of_error == MarginOfError(z_score, sigma, n)
    IN [data |-> data, mean_sample |-> mean_sample, sigma |-> sigma, n |-> n,
        z_score |-> z_score, margin_of_error |-> margin_of_error,
        ci_lower |-> mean_sample - margin_of_error,
        ci_upper |-> mean_sample + margin_of_error]

ZScoreCell(Data, Sigmas) ==
    \E data \in Data, sigma \in Sigmas :
        LET b == ZInterval(data, sigma)
        IN /\ ci' = Bind(ci, b)
           /\ stdout' = [ci_lower |-> RoundTo(b.ci_lower, Micro, 10^2),
                         ci_upper |-> RoundTo(b.ci_upper, Micro, 10^2)]
           /\ cell' = "ZScore"
           /\ error' = "none"
           /\ UNCHANGED hyp

\* TInterval with the population standard deviation (ddof = 0).
TIntervalPopulationStd(data, n, mean_sample) ==
    LET s == Std(data, 0, Micro)
        t_score == TPpf975(n - 1)
        margin_of_error_t ==
            FMulDiv(t_score, FQuot(s, 10^4, Num(SqrtN(n))), Micro)
    IN [s |-> s, t_score |-> t_score, margin_of_error_t |-> margin_of_error_t,
        ci_lower_t |-> FSub(Num(mean_sample), margin_of_error_t),
        ci_upper_t |-> FAdd(Num(mean_sample), margin_of_error_t)]

\* TInterval without the division by np.sqrt(n).
TIntervalNoRoot(data, n, mean_sample) ==
    LET s == Std(data, 1, Micro)
        t_score == TPpf975(n - 1)
        margin_of_error_t == FMulDiv(t_score, s, Micro)
    IN [s |-> s, t_score |-> t_score, margin_of_error_t |-> margin_of_error_t,
        ci_lower_t |-> FSub(Num(mean_sample), margin_of_error_t),
        ci_upper_t |-> FAdd(Num(mean_sample), margin_of_error_t)]

\* The names the t-score cell binds from the data, n and mean_sample the
\* kernel holds: floats, nan when the sample has one element.
TInterval(data, n, mean_sample) ==
    LET s == Std(data, 1, Micro)
        t_score == TPpf975(n - 1)
        margin_of_error_t ==
            FMulDiv(t_score, FQuot(s, 10^4, Num(SqrtN(n))), Micro)
    IN [s |-> s, t_score |-> t_score, margin_of_error_t |-> margin_of_error_t,
        ci_lower_t |-> FSub(Num(mean_sample), margin_of_error_t),
        ci_upper_t |-> FAdd(Num(mean_sample), margin_of_error_t)]

\* The cell reads data, n and mean_sample: a NameError when the Z-score cell
\* has not bound them.
TScoreCell ==
    /\ cell' = "TScore"
    /\ UNCHANGED hyp
    /\ IF {"data", "n", "mean_sample"} \subseteq DOMAIN ci
       THEN LET b == TInterval(ci.data, ci.n, ci.mean_sample)
            IN /\ ci' = Bind(ci, b)
               /\ stdout' = [ci_lower_t |-> Fmt(b.ci_lower_t, Micro, 10^2),
                             ci_upper_t |-> Fmt(b.ci_upper_t, Micro, 10^2)]
               /\ error' = "none"
       ELSE /\ UNCHANGED ci
            /\ stdout' = << >>
            /\ error' = "NameError"

\* The sample size 100 and the degrees of freedom 198 the two-means cell
\* writes into its standard error and its critical value.
TwoMeansSize == 100
TwoMeansDf == 198

\* TwoMeans with the two bounds assigned the other way round.
TwoMeansSwapped(sample1, sample2) ==
    LET mean_diff == Mean(sample1) - Mean(sample2)
        std_error ==
            FSqrtSum(FQuot(Var(sample1, 1, Micro), 1, Num(TwoMeansSize)),
                     FQuot(Var(sample2, 1, Micro), 1, Num(TwoMeansSize)))
        t_critical == TPpf975(TwoMeansDf)
        margin_of_error_2samples ==
            FMulDiv(t_critical, std_error, Micro)
    IN [sample1 |-> sample1, sample2 |-> sample2, mean_diff |-> mean_diff,
        std_error |-> std_error, t_critical |-> t_critical,
        margin_of_error_2samples |-> margin_of_error_2samples,
        ci_lower_2samples |->
            FAdd(Num(mean_diff), margin_of_error_2samples),
        ci_upper_2samples |->
            FSub(Num(mean_diff), margin_of_error_2samples)]

\* The names the two-means cell binds from its two samples.
TwoMeans(sample1, sample2) ==
    LET mean_diff == Mean(sample1) - Mean(sample2)
        std_error ==
            FSqrtSum(FQuot(Var(sample1, 1, Micro), 1, Num(TwoMeansSize)),
                     FQuot(Var(sample2, 1, Micro), 1, Num(TwoMeansSize)))
        t_critical == TPpf975(TwoMeansDf)
        margin_of_error_2samples ==
            FMulDiv(t_critical, std_error, Micro)
    IN [sample1 |-> sample1, sample2 |-> sample2, mean_diff |-> mean_diff,
        std_error |-> std_error, t_critical |-> t_critical,
        margin_of_error_2samples |-> margin_of_error_2samples,
        ci_lower_2samples |->
            FSub(Num(mean_diff), margin_of_error_2samples),
        ci_upper_2samples |->
            FAdd(Num(mean_diff), margin_of_error_2samples)]

TwoMeansCell(Pairs) ==
    \E d \in Pairs :
        LET b == TwoMeans(d.sample1, d.sample2)
        IN /\ ci' = Bind(ci, b)
           /\ stdout' = [ci_lower_2samples |-> Fmt(b.ci_lower_2samples, Micro, 10^2),
                         ci_upper_2samples |-> Fmt(b.ci_upper_2samples, Micro, 10^2)]
           /\ cell' = "TwoMeans"
           /\ error' = "none"
           /\ UNCHANGED hyp

(***************************************************************************)
(* Inputs                                                                  *)
(***************************************************************************)
\* The arrays of 1 to len elements drawn from values.
Arrays(values, len) == UNION {[1 .. n -> values] : n \in 1 .. len}

\* The longest array a cell draws.
MaxLen == 3

\* The largest group of the A/B grid, beside the scenario of the notebook.
MaxVisitors == 2
ScenarioVisitors == 10000
ScenarioConvA == 500
ScenarioConvB == 600

Scenario ==
    [n_A |-> ScenarioVisitors, n_B |-> ScenarioVisitors,
     conv_A |-> ScenarioConvA, conv_B |-> ScenarioConvB]

ABInputs ==
    {d \in [n_A : 1 .. MaxVisitors, n_B : 1 .. MaxVisitors,
            conv_A : 0 .. MaxVisitors, conv_B : 0 .. MaxVisitors] :
        d.conv_A <= d.n_A /\ d.conv_B <= d.n_B}
    \cup {Scenario, [Scenario EXCEPT !.conv_A = ScenarioConvB, !.conv_B = ScenarioConvA]}

\* Significance levels in Micro: 0.01, 0.05 (the notebook's), and 0.157368,
\* the p-value of one conversion out of two against none.
Alphas == {10000, 50000, 157368}

\* t statistics of the ratio-metrics cell in Milli (the notebook's run
\* printed -8.3164).
TStats == {-8316, 1960}

\* Samples of the Z-score cell, in Micro, and population standard deviations.
DataSamples == Arrays({47 * Micro, 52 * Micro}, MaxLen)
Sigmas == {0, 10 * Micro}

\* Samples of the two-means cell, in Micro.
TwoMeansPairs ==
    [sample1 : Arrays({50 * Micro, 58 * Micro}, MaxLen),
     sample2 : Arrays({48 * Micro, 52 * Micro}, MaxLen)]

\* The longest sample of the runs that compare sample sizes, and the samples
\* of 1 to MaxSize elements that alternate between two values.
MaxSize == 8
AlternatingSamples ==
    {[i \in 1 .. n |-> IF i % 2 = 1 THEN 47 * Micro ELSE 52 * Micro] : n \in 1 .. MaxSize}

\* Sample sizes per group, significance levels and powers (Micro) of the MDE
\* cell, and new sample sizes of the doubling cell.
SampleSizes == {1000, 5000, 10000, 20000}
MDELevels == {10000, 50000, 100000}
Powers == {800000, 900000}
NewSampleSizes == {10000, 20000}

\* The array of n elements that alternates between a and b.
Alternating(n, a, b) == [i \in 1 .. n |-> IF i % 2 = 1 THEN a ELSE b]

\* Pre-experiment data X of the CUPED cell with the noise that makes Y of it,
\* and covariates of the CUPAC cell, in Milli.
CupedPairs ==
    {[X |-> X, noise |-> noise] :
        <<X, noise>> \in {<<X, Alternating(Len(X), a, 11 * Milli - a)>> :
                             X \in Arrays({90 * Milli, 110 * Milli}, MaxLen),
                             a \in {2 * Milli, 9 * Milli}}}
Covariates ==
    {Alternating(n, 40 * Milli, 60 * Milli) : n \in 1 .. MaxLen}

\* Metrics of the delta-method cell, in Milli: draws around 1.5 and at zero,
\* and arrays that alternate between a draw below zero and another draw
\* (np.log has no number at and below zero).
Metrics ==
    Arrays({0, 1200, 1500, 2100}, MaxLen)
        \cup {Alternating(n, d[1], d[2]) :
                 n \in 1 .. MaxLen,
                 d \in ({-300} \X {-300, 0, 1200, 1500, 2100})
                          \cup ({0, 1200, 1500, 2100} \X {-300})}

\* Observed and expected counts of the chi-square test, of equal and of
\* unequal lengths, with expected counts of zero among them.
ChiTables == [observed : Arrays({0, 12}, MaxLen), expected : Arrays({0, 8}, MaxLen)]

\* A few inputs of each kind, for the specifications that run many cells.
FewData == {<<47 * Micro>>, <<47 * Micro, 52 * Micro>>, <<52 * Micro, 52 * Micro, 47 * Micro>>}
FewTwoMeansPairs ==
    {[sample1 |-> <<50 * Micro, 58 * Micro>>, sample2 |-> <<48 * Micro, 52 * Micro>>],
     [sample1 |-> <<58 * Micro, 50 * Micro, 58 * Micro>>, sample2 |-> <<48 * Micro, 52 * Micro>>],
     [sample1 |-> <<50 * Micro, 50 * Micro>>, sample2 |-> <<52 * Micro, 48 * Micro, 48 * Micro>>],
     [sample1 |-> <<58 * Micro>>, sample2 |-> <<48 * Micro, 52 * Micro>>]}
FewCupedPairs ==
    {[X |-> <<90 * Milli, 110 * Milli>>, noise |-> <<2 * Milli, 9 * Milli>>],
     [X |-> <<110 * Milli, 90 * Milli>>, noise |-> <<2 * Milli, 9 * Milli>>],
     [X |-> <<90 * Milli, 90 * Milli>>, noise |-> <<9 * Milli, 2 * Milli>>]}
FewCovariates == {<<40 * Milli, 60 * Milli>>, <<60 * Milli, 40 * Milli>>}

(***************************************************************************)
(* Specifications                                                          *)
(***************************************************************************)
\* The cells that read names other cells bind, with the cells that bind them.
Next ==
    \/ MDECell({OriginalSampleSize}, {10000, 50000}, {800000})
    \/ DoublingCell({2 * OriginalSampleSize})
    \/ CUPEDCell(FewCupedPairs)
    \/ CUPACCell(FewCovariates)
    \/ ZScoreCell(FewData, {10 * Micro})
    \/ TScoreCell

Spec == Init /\ [][Next]_vars

\* The A/B test, and the other cell that binds p_value.
NextAB == ABTestCell(ABInputs, Alphas) \/ RatioMetricsCell(TStats)

SpecAB == Init /\ [][NextAB]_vars

\* The confidence-interval notebook on all its samples but the two-means ones.
NextCI == MarginCell \/ ZScoreCell(DataSamples, Sigmas) \/ TScoreCell

SpecCI == Init /\ [][NextCI]_vars

\* The three interval cells together.
NextIntervals ==
    \/ ZScoreCell(FewData, Sigmas)
    \/ TScoreCell
    \/ TwoMeansCell(FewTwoMeansPairs)

SpecIntervals == Init /\ [][NextIntervals]_vars

\* The two-means cell on all its samples.
NextTwoMeans == TwoMeansCell(TwoMeansPairs)

SpecTwoMeans == Init /\ [][NextTwoMeans]_vars

\* The Z-score and t-score cells on samples of every size up to MaxSize.
NextWidth == ZScoreCell(AlternatingSamples, Sigmas) \/ TScoreCell

SpecWidth == Init /\ [][NextWidth]_vars

\* The MDE cell and the doubling cell on several sizes, levels and powers.
NextMDE == MDECell(SampleSizes, MDELevels, Powers) \/ DoublingCell(NewSampleSizes)

SpecMDE == Init /\ [][NextMDE]_vars

\* The CUPED cell and the CUPAC cell on all their arrays.
NextCuped == CUPEDCell(CupedPairs) \/ CUPACCell(Covariates)

SpecCuped == Init /\ [][NextCuped]_vars


\* The delta-method cell on all its metrics.
NextDelta == DeltaMethodCell(Metrics)

SpecDelta == Init /\ [][NextDelta]_vars

\* Calls of the chi-square test on all its tables.
NextChi == ChiSquareTest(ChiTables)

SpecChi == Init /\ [][NextChi]_vars
(***************************************************************************)
(* Properties                                                              *)
(***************************************************************************)
\* The p-value the A/B test cell bound is a number below its alpha.
PBelowAlpha == hyp.p_value.k = "num" /\ hyp.p_value.v < hyp.alpha

\* C1: the A/B test cell concludes REJECT_NULL if and only if its p-value is
\* below its alpha; a p-value equal to alpha concludes FAIL_TO_REJECT.
C1_DecisionRule ==
    cell = "ABTest" =>
        /\ (stdout.conclusion = REJECT_NULL) <=> PBelowAlpha
        /\ (hyp.p_value.k = "num" /\ hyp.p_value.v = hyp.alpha)
               => stdout.conclusion = FAIL_TO_REJECT

\* The A/B test cell has decided a tie.
C1_Witness ==
    /\ cell = "ABTest"
    /\ hyp.p_value.k = "num" /\ hyp.p_value.v = hyp.alpha
    /\ stdout.conclusion = FAIL_TO_REJECT

\* C2: every run of the A/B test cell ends, without an exception, in one of
\* the two decisions, and the decision is the one of the p-value and alpha
\* this run bound, whatever p-value, alpha or decision the kernel held before.
C2_TerminalDecision ==
    [][cell' = "ABTest" =>
          /\ error' = "none"
          /\ stdout'.conclusion \in {REJECT_NULL, FAIL_TO_REJECT}
          /\ stdout'.conclusion =
                 (IF hyp'.p_value.k = "num" /\ hyp'.p_value.v < hyp'.alpha
                  THEN REJECT_NULL ELSE FAIL_TO_REJECT)]_vars

\* The A/B test cell has failed to reject in a kernel where the ratio-metrics
\* cell had bound a p-value before.
C2_Witness ==
    /\ cell = "ABTest"
    /\ "t_stat" \in DOMAIN hyp
    /\ stdout.conclusion = FAIL_TO_REJECT

\* C4: the A/B test cell binds p_A = conv_A/n_A and p_B = conv_B/n_B, the
\* unpooled standard errors with se^2 = p(1-p)/n, se_diff^2 = se_A^2 + se_B^2,
\* and a z_score with z_score * se_diff = p_B - p_A and the sign of p_B - p_A
\* (each to the rounding of the fixed-point units) whenever se_diff > 0; a
\* zero se_diff makes the quotient the float division gives: nan for 0/0,
\* else the infinity of the sign of p_B - p_A.
C4_ZScoreFormula ==
    cell = "ABTest" =>
        LET varA == MulDiv(MulDiv(hyp.p_A, Micro - hyp.p_A, Micro), Milli, hyp.n_A)
            varB == MulDiv(MulDiv(hyp.p_B, Micro - hyp.p_B, Micro), Milli, hyp.n_B)
            sqA == MulDiv(hyp.se_A, hyp.se_A, 10^5)
            sqB == MulDiv(hyp.se_B, hyp.se_B, 10^5)
            sqDiff == MulDiv(hyp.se_diff, hyp.se_diff, 10^5)
        IN /\ 2 * Abs(hyp.p_A * hyp.n_A - hyp.conv_A * Micro) <= hyp.n_A
           /\ 2 * Abs(hyp.p_B * hyp.n_B - hyp.conv_B * Micro) <= hyp.n_B
           /\ Abs(sqA - varA) <= varA \div 1000 + 1
           /\ Abs(sqB - varB) <= varB \div 1000 + 1
           /\ Abs(sqDiff - (varA + varB)) <= (varA + varB) \div 500 + 2
           /\ hyp.se_diff > 0 =>
                 /\ hyp.z_score.k = "num"
                 /\ Abs(MulDiv(hyp.z_score.v, hyp.se_diff, 10^4) - (hyp.p_B - hyp.p_A))
                       <= hyp.se_diff \div 10^4 + 1
                 /\ Sign(hyp.z_score.v) = Sign(hyp.p_B - hyp.p_A)
           /\ hyp.se_diff = 0 =>
                 hyp.z_score = (IF hyp.p_B = hyp.p_A THEN NaN
                                ELSE Inf(Sign(hyp.p_B - hyp.p_A)))

\* The A/B test cell has computed a negative z_score from unequal groups.
C4_Witness ==
    /\ cell = "ABTest"
    /\ hyp.n_A # hyp.n_B
    /\ hyp.se_diff > 0
    /\ hyp.z_score.k = "num" /\ hyp.z_score.v < 0

\* The kernel holds the scenario of the notebook at the 5% level.
IsScenario ==
    /\ hyp.n_A = ScenarioVisitors /\ hyp.conv_A = ScenarioConvA
    /\ hyp.n_B = ScenarioVisitors /\ hyp.conv_B = ScenarioConvB
    /\ hyp.alpha = 50000

\* C5: on 500 of 10000 against 600 of 10000 at alpha = 0.05 the A/B test cell
\* gives 3.095 <= z < 3.105, printed 3.10, a p-value printed 0.0019, and
\* REJECT_NULL.
C5_Scenario ==
    (cell = "ABTest" /\ IsScenario) =>
        /\ hyp.z_score.k = "num"
        /\ 3095 <= hyp.z_score.v /\ hyp.z_score.v < 3105
        /\ stdout.z_score = Num(310)
        /\ stdout.p_value = Num(19)
        /\ stdout.conclusion = REJECT_NULL

\* The A/B test cell has run on the scenario.
C5_Witness == cell = "ABTest" /\ IsScenario /\ stdout.conclusion = REJECT_NULL

\* The critical values the MDE cell of the notebook binds (alpha = 0.05,
\* power = 0.8), which the doubling cell reads in the notebook's order.
NotebookZAlpha == NormPpf(Micro - 50000 \div 2)
NotebookZPower == NormPpf(800000)

TimesSqrtN(x, n) == MulDiv(x, SqrtN(n), 10^4)

\* a and b agree to one part in 5000 and two units.
Near(a, b) == Abs(a - b) <= Abs(b) \div 5000 + 2

\* C3 amended, the cells that bind all they read: the MDE, CUPED and Z-score
\* cells end without an exception in a result made of the inputs of this run.
SelfContainedStep ==
    /\ cell' = "MDE" =>
          /\ error' = "none"
          /\ Abs(NormCdf(RoundTo(hyp'.z_alpha, Micro, Milli)) - (Micro - hyp'.alpha \div 2)) <= 300
          /\ Abs(NormCdf(RoundTo(hyp'.z_power, Micro, Milli)) - hyp'.power) <= 300
          /\ LET x == TimesSqrtN(hyp'.mde, hyp'.n)
                 z == hyp'.z_alpha + hyp'.z_power
             IN Near(2 * MulDiv(x, x, Micro), MulDiv(z, z, Micro))
          /\ stdout' = [mde |-> RoundTo(hyp'.mde, Micro, 10^4)]
    /\ cell' = "CUPED" =>
          /\ error' = "none"
          /\ Len(hyp'.Y_adj) = Len(hyp'.Y)
          /\ IsNum(hyp'.theta) =>
                \A i \in 1 .. Len(hyp'.Y) :
                    /\ IsNum(hyp'.Y_adj[i])
                    /\ Abs(hyp'.Y_adj[i].v
                           - (hyp'.Y[i] - MulDiv(hyp'.theta.v,
                                                 hyp'.X[i] - Mean(hyp'.X), Micro))) <= 1
    /\ cell' = "ZScore" =>
          /\ error' = "none"
          /\ ci'.n = Len(ci'.data)
          /\ ci'.ci_lower + ci'.ci_upper = 2 * Mean(ci'.data)

\* C3 amended, the cells that read the kernel: the doubling cell, the CUPAC
\* cell and the t-score cell raise NameError and print nothing when the names
\* they read are unbound, and otherwise compute from the values the kernel
\* held before the step.
KernelReadingStep ==
    /\ cell' = "Doubling" =>
          IF {"z_alpha", "z_power"} \subseteq DOMAIN hyp
          THEN /\ error' = "none"
               /\ LET x == TimesSqrtN(hyp'.new_mde, hyp'.new_sample_size)
                      z == hyp.z_alpha + hyp.z_power
                  IN Near(2 * MulDiv(x, x, Micro), MulDiv(z, z, Micro))
               /\ stdout'.new_mde = RoundTo(hyp'.new_mde, Micro, 10^4)
          ELSE /\ error' = "NameError"
               /\ stdout' = << >>
               /\ "new_mde" \in DOMAIN hyp' <=> "new_mde" \in DOMAIN hyp
    /\ cell' = "CUPAC" =>
          IF {"Y_adj", "theta"} \subseteq DOMAIN hyp
          THEN /\ error' = "none"
               /\ Len(hyp'.Y_adj_cupac) = Len(hyp.Y_adj)
               /\ IsNum(hyp.theta) =>
                     \A i \in 1 .. Len(hyp.Y_adj) :
                         /\ IsNum(hyp'.Y_adj_cupac[i])
                         /\ Abs(hyp'.Y_adj_cupac[i].v
                                - (hyp.Y_adj[i].v
                                   - MulDiv(hyp.theta.v,
                                            hyp'.covariate[i] - Mean(hyp'.covariate),
                                            Micro))) <= 1
          ELSE /\ error' = "NameError"
               /\ stdout' = << >>
               /\ "Y_adj_cupac" \in DOMAIN hyp' <=> "Y_adj_cupac" \in DOMAIN hyp
    /\ cell' = "TScore" =>
          IF {"data", "n", "mean_sample"} \subseteq DOMAIN ci
          THEN /\ error' = "none"
               /\ ci'.t_score = TPpf975(ci.n - 1)
               /\ ci.n >= 2 =>
                     /\ IsNum(ci'.ci_lower_t) /\ IsNum(ci'.ci_upper_t)
                     /\ ci'.ci_lower_t.v + ci'.ci_upper_t.v = 2 * ci.mean_sample
          ELSE /\ error' = "NameError"
               /\ stdout' = << >>
               /\ ci' = ci

C6_Ordered ==
    /\ cell = "ZScore" => ci.ci_lower <= ci.ci_upper
    /\ (cell = "TScore" /\ error = "none" /\ ci.n >= 2) =>
          /\ IsNum(ci.ci_lower_t) /\ IsNum(ci.ci_upper_t)
          /\ ci.ci_lower_t.v <= ci.ci_upper_t.v
    /\ (cell = "TwoMeans" /\ Len(ci.sample1) >= 2 /\ Len(ci.sample2) >= 2) =>
          /\ IsNum(ci.ci_lower_2samples) /\ IsNum(ci.ci_upper_2samples)
          /\ ci.ci_lower_2samples.v <= ci.ci_upper_2samples.v

\* The two-means cell has made an interval of positive width in a kernel that
\* holds the intervals of the other two cells.
C6_Witness ==
    /\ cell = "TwoMeans"
    /\ Len(ci.sample1) >= 2 /\ Len(ci.sample2) >= 2
    /\ IsNum(ci.ci_lower_2samples) /\ IsNum(ci.ci_upper_2samples)
    /\ ci.ci_lower_2samples.v < ci.ci_upper_2samples.v
    /\ {"ci_lower", "ci_lower_t"} \subseteq DOMAIN ci
    /\ ci.ci_lower < ci.ci_upper

\* C7: the Z-score cell returns mean(data) +- z * sigma / sqrt(n): the bounds
\* are symmetric about the mean of the sample, lower <= mean <= upper, z is
\* the normal quantile of 0.975 (1.959964), and the half-width times sqrt(n)
\* is z * sigma, for every sample of n >= 1 elements.
C7_ZInterval ==
    cell = "ZScore" =>
        /\ ci.n = Len(ci.data) /\ ci.n >= 1
        /\ 2 * Abs(ci.n * ci.mean_sample - Sum(ci.data)) <= ci.n
        /\ ci.ci_lower + ci.ci_upper = 2 * ci.mean_sample
        /\ ci.ci_lower <= ci.mean_sample /\ ci.mean_sample <= ci.ci_upper
        /\ Abs(ci.z_score - 1959964) <= 5
        /\ Near(TimesSqrtN(ci.ci_upper - ci.mean_sample, ci.n),
                MulDiv(ci.z_score, ci.sigma, Micro))

\* The Z-score cell has made an interval of a sample of three elements with a
\* positive sigma.
C7_Witness ==
    /\ cell = "ZScore"
    /\ ci.n = 3
    /\ ci.sigma > 0
    /\ ci.ci_lower < ci.mean_sample

\* The sum of the squares of the deviations of s from m, in Micro.
SumSqDev(s, m) ==
    Sum([i \in 1 .. Len(s) |-> MulDiv(s[i] - m, s[i] - m, Micro)])

\* C8: on a sample of n >= 2 elements the t-score cell returns
\* mean(data) +- t * s / sqrt(n), with s^2 * (n - 1) the sum of the squared
\* deviations from the mean, t the 0.975 quantile of Student's t with n - 1
\* degrees of freedom, and n the length of the data the mean and s are of.
C8_TInterval ==
    (cell = "TScore" /\ error = "none" /\ ci.n >= 2) =>
        /\ ci.n = Len(ci.data)
        /\ 2 * Abs(ci.n * ci.mean_sample - Sum(ci.data)) <= ci.n
        /\ IsNum(ci.s) /\ IsNum(ci.t_score)
        /\ IsNum(ci.ci_lower_t) /\ IsNum(ci.ci_upper_t)
        /\ Abs(MulDiv(ci.s.v, ci.s.v, Micro) * (ci.n - 1)
               - SumSqDev(ci.data, ci.mean_sample))
              <= SumSqDev(ci.data, ci.mean_sample) \div 5000 + ci.n
        /\ ci.t_score = TPpf975(Len(ci.data) - 1)
        /\ ci.ci_lower_t.v + ci.ci_upper_t.v = 2 * ci.mean_sample
        /\ Near(TimesSqrtN(ci.ci_upper_t.v - ci.mean_sample, ci.n),
                MulDiv(ci.t_score.v, ci.s.v, Micro))

\* The t-score cell has made an interval of a sample of three elements that
\* are not all equal.
C8_Witness ==
    /\ cell = "TScore"
    /\ error = "none"
    /\ ci.n = 3
    /\ IsNum(ci.s) /\ ci.s.v > 0
    /\ ci.ci_lower_t.v < ci.ci_upper_t.v

\* C9 as stated: on samples of at least two elements each, the standard error
\* of the two-means cell squared is var1/n1 + var2/n2 with each variance over
\* the size of its own sample, and t_critical has n1 + n2 - 2 degrees of
\* freedom.
C9_OwnSizes ==
    (cell = "TwoMeans" /\ Len(ci.sample1) >= 2 /\ Len(ci.sample2) >= 2) =>
        LET n1 == Len(ci.sample1)
            n2 == Len(ci.sample2)
            v1 == MulDiv(SumSqDev(ci.sample1, Mean(ci.sample1)), 1, n1 - 1)
            v2 == MulDiv(SumSqDev(ci.sample2, Mean(ci.sample2)), 1, n2 - 1)
            own == MulDiv(v1, 1, n1) + MulDiv(v2, 1, n2)
        IN /\ IsNum(ci.std_error)
           /\ Abs(MulDiv(ci.std_error.v, ci.std_error.v, Micro) - own)
                 <= own \div 1000 + 4
           /\ ci.t_critical = TPpf975(n1 + n2 - 2)

\* C10: the margins of error of the margin cell (sigma = 10, 95% level) fall
\* strictly as the sample size grows, halve when it quadruples, and
\* margin^2 * n is the same for every sample size; in the Z-score cell
\* margin^2 * n is (z * sigma)^2 for every n.
C10_MarginScaling ==
    /\ cell = "Margin" =>
          LET sizes == ci.sample_sizes
              moe == ci.moe_values
              K(i) == MulDiv(TimesSqrtN(moe[i], sizes[i]),
                             TimesSqrtN(moe[i], sizes[i]), Micro)
          IN /\ Len(moe) = Len(sizes)
             /\ \A i, j \in 1 .. Len(sizes) :
                   /\ sizes[i] < sizes[j] => moe[i] > moe[j]
                   /\ sizes[j] = 4 * sizes[i] => Near(2 * moe[j], moe[i])
                   /\ Near(K(i), K(j))
    /\ cell = "ZScore" =>
          LET x == TimesSqrtN(ci.margin_of_error, ci.n)
              zs == MulDiv(ci.z_score, ci.sigma, Micro)
          IN Near(MulDiv(x, x, Micro), MulDiv(zs, zs, Micro))

\* The margin cell has run: its fourth sample size is four times its first,
\* and the margin there is smaller.
C10_Witness ==
    /\ cell = "Margin"
    /\ ci.sample_sizes[4] = 4 * ci.sample_sizes[1]
    /\ ci.moe_values[4] < ci.moe_values[1]
    /\ "margin_of_error" \in DOMAIN ci

\* C11: with the sample standard deviation and the level fixed, a larger
\* sample gives a strictly narrower t interval: the margin the t-score cell
\* makes of n elements is strictly smaller than t(m-1) * s / sqrt(m) for every
\* smaller size m >= 2, that is t(n-1)/sqrt(n) < t(m-1)/sqrt(m) for m < n.
C11_Narrows ==
    (cell = "TScore" /\ error = "none" /\ ci.n >= 2) =>
        /\ IsNum(ci.s) /\ IsNum(ci.margin_of_error_t)
        /\ ci.s.v > 0 =>
              \A m \in 2 .. ci.n - 1 :
                  TimesSqrtN(ci.margin_of_error_t.v, m)
                      < MulDiv(TPpf975(m - 1).v, ci.s.v, Micro)

\* The t-score cell has made the margin of a sample of MaxSize elements, to
\* compare with every smaller size.
C11_Witness ==
    /\ cell = "TScore"
    /\ error = "none"
    /\ ci.n = MaxSize
    /\ IsNum(ci.s) /\ ci.s.v > 0
    /\ ci.margin_of_error_t.v > 0

\* z in Micro is the normal quantile of p in Micro, to the step of the table.
IsQuantile(z, p) == Abs(NormCdf(RoundTo(z, Micro, Milli)) - p) <= 300

\* p(1 - p) of the baseline proportion 0.5, in Micro.
BaselineVariance == MulDiv(BaselineProportion, Micro - BaselineProportion, Micro)

\* C12: the MDE cell binds z_alpha, the normal quantile of 1 - alpha/2,
\* z_power, the quantile of the power, se with se^2 * n = p(1 - p) for the
\* baseline proportion p = 0.5 and its own n, and mde = (z_alpha + z_power) *
\* se * sqrt(2); the doubling cell binds the same of its new_sample_size and
\* the z_alpha and z_power of the kernel.
C12_MDEFormula ==
    /\ cell = "MDE" =>
          LET z == hyp.z_alpha + hyp.z_power
              x == MulDiv(hyp.se, SqrtN(hyp.n), 10^4)
              zse == MulDiv(z, hyp.se, 10^6)
          IN /\ IsQuantile(hyp.z_alpha, Micro - hyp.alpha \div 2)
             /\ IsQuantile(hyp.z_power, hyp.power)
             /\ Near(MulDiv(x, x, 10^8), BaselineVariance)
             /\ Near(MulDiv(10 * hyp.mde, 10 * hyp.mde, 10^4),
                     2 * MulDiv(zse, zse, 10^4))
    /\ (cell = "Doubling" /\ error = "none") =>
          LET z == hyp.z_alpha + hyp.z_power
              x == TimesSqrtN(hyp.new_mde, hyp.new_sample_size)
          IN Near(MulDiv(x, x, Micro),
                  MulDiv(MulDiv(z, z, Micro), 2 * BaselineVariance, Micro))

\* The MDE cell has run on 1000 per group at power 0.9 in a kernel where the
\* doubling cell had bound a new_mde.
C12_Witness ==
    /\ cell = "MDE"
    /\ hyp.n = 1000
    /\ hyp.power = 900000
    /\ "new_mde" \in DOMAIN hyp

\* The square root of 2/n, in Micro.
SqrtTwoOverN(n) == SqrtScaled(MulDiv(2 * Micro, 1, n), Micro)

C14_Decreasing ==
    [][/\ (cell' = "Doubling" /\ error' = "none" /\ "mde" \in DOMAIN hyp) =>
             /\ hyp.n < hyp'.new_sample_size => hyp'.new_mde < hyp.mde
             /\ hyp.n > hyp'.new_sample_size => hyp'.new_mde > hyp.mde
       /\ (cell' = "MDE" /\ "mde" \in DOMAIN hyp
           /\ hyp'.alpha = hyp.alpha /\ hyp'.power = hyp.power) =>
             /\ hyp.n < hyp'.n => hyp'.mde < hyp.mde
             /\ hyp.n > hyp'.n => hyp'.mde > hyp.mde]_vars

\* The doubling cell has run on 10000 after the MDE cell of the notebook
\* (5000 per group, alpha = 0.05, power = 0.8): 0.0198 under 0.0280.
C14_Witness ==
    /\ cell = "Doubling"
    /\ error = "none"
    /\ hyp.n = 5000 /\ hyp.alpha = 50000 /\ hyp.power = 800000
    /\ hyp.new_sample_size = 10000
    /\ stdout.new_mde = 198
    /\ hyp.new_mde < hyp.mde

\* The MDE cell has run on the scenario of the notebook: 5000 per group,
\* alpha = 0.05, power = 0.8 (and the baseline proportion 0.5 of the code).
IsMDEScenario ==
    /\ cell = "MDE"
    /\ hyp.n = 5000 /\ hyp.alpha = 50000 /\ hyp.power = 800000

\* C15: on 5000 per group, alpha = 0.05, power = 0.8 and the baseline
\* proportion 0.5 the MDE cell binds 0.02795 <= mde < 0.02805 and prints
\* 0.0280.
C15_MDEScenario ==
    IsMDEScenario =>
        /\ 27950 <= hyp.mde /\ hyp.mde < 28050
        /\ stdout = [mde |-> 280]
        /\ error = "none"

\* The MDE cell has printed 0.0280 on the scenario.
C15_Witness == IsMDEScenario /\ stdout.mde = 280 /\ hyp.se > 0

\* The sum of the products of the deviations of x and y from their means, for
\* arrays in Milli, in Milli.
SumProd(x, y) ==
    Sum([i \in 1 .. Len(x) |-> MulDiv(x[i] - Mean(x), y[i] - Mean(y), Milli)])

\* a and b in Milli agree to one part in 1000 and five units.
Close(a, b) == Abs(a - b) <= Abs(b) \div 1000 + 5

\* C16: the CUPED cell binds theta = np.cov(X, Y)[0, 1] / np.var(X), the sum
\* of the products of the deviations over n - 1 divided by the sum of the
\* squared deviations of X over n, and Y_adj of the length of X and Y with
\* Y_adj[i] = Y[i] - theta * (X[i] - mean(X)) for every i; theta and every
\* Y_adj[i] are numbers when X is not constant.
C16_CupedFormula ==
    cell = "CUPED" =>
        LET n == Len(hyp.X)
        IN /\ Len(hyp.Y) = n /\ Len(hyp.Y_adj) = n
           /\ SumProd(hyp.X, hyp.X) > 0 =>
                 /\ IsNum(hyp.theta)
                 /\ Close(MulDiv(hyp.theta.v, SumProd(hyp.X, hyp.X) * (n - 1), Micro),
                          SumProd(hyp.X, hyp.Y) * n)
                 /\ \A i \in 1 .. n :
                       /\ IsNum(hyp.Y_adj[i])
                       /\ Abs(hyp.Y_adj[i].v
                              - (hyp.Y[i] - MulDiv(hyp.theta.v,
                                                   hyp.X[i] - Mean(hyp.X), Micro))) <= 1

\* The CUPED cell has adjusted three elements with a theta that is neither 0
\* nor 1.
C16_Witness ==
    /\ cell = "CUPED"
    /\ Len(hyp.X) = 3
    /\ IsNum(hyp.theta) /\ hyp.theta.v > Micro
    /\ hyp.Y_adj[1].v # hyp.Y[1]

\* The numbers of an array of floats that are all numbers.
Values(s) == [i \in 1 .. Len(s) |-> s[i].v]

\* C17 as stated: whenever X is not constant, the covariance of X and the
\* Y_adj the CUPED cell binds is zero to the rounding (0.05 on covariances of
\* the order of 100), and so is theta recomputed on Y_adj.
C17_RoundTrip ==
    (cell = "CUPED" /\ SumProd(hyp.X, hyp.X) > 0) =>
        /\ \A i \in 1 .. Len(hyp.Y_adj) : IsNum(hyp.Y_adj[i])
        /\ Abs(SumProd(hyp.X, Values(hyp.Y_adj))) <= 50
        /\ Abs(Theta(hyp.X, Values(hyp.Y_adj)).v) <= 1000

\* The sum of the squared deviations of an array of numbers in Milli, that is
\* n times its np.var.
SumSq(s) == SumProd(s, s)

\* C18: on arrays of n >= 2 elements with a non-constant X, the variance of
\* the Y_adj the CUPED cell binds is at most the variance of Y (to the
\* rounding of the fixed point), and so are the two variances it prints.
C18_CupedReduces ==
    (cell = "CUPED" /\ Len(hyp.X) >= 2 /\ SumProd(hyp.X, hyp.X) > 0) =>
        /\ \A i \in 1 .. Len(hyp.Y_adj) : IsNum(hyp.Y_adj[i])
        /\ SumSq(Values(hyp.Y_adj)) <= SumSq(hyp.Y) + 5
        /\ IsNum(stdout.after) /\ IsNum(stdout.before)
        /\ stdout.after.v <= stdout.before.v

\* The CUPED cell has printed a variance after the adjustment that is
\* strictly below the variance before it.
C18_Witness ==
    /\ cell = "CUPED"
    /\ Len(hyp.X) = 3
    /\ IsNum(stdout.after)
    /\ stdout.after.v < stdout.before.v

\* C19 as stated: the variance of the Y_adj_cupac the CUPAC cell binds is at
\* most the variance of the Y_adj it read (to the rounding of the fixed
\* point).
C19_CupacReduces ==
    (cell = "CUPAC" /\ error = "none" /\ IsNum(hyp.theta)) =>
        /\ \A i \in 1 .. Len(hyp.Y_adj_cupac) : IsNum(hyp.Y_adj_cupac[i])
        /\ SumSq(Values(hyp.Y_adj_cupac)) <= SumSq(Values(hyp.Y_adj)) + 5

\* C20 as stated: when X has no variance (a constant X, or a single element)
\* the CUPED cell fails with DegenerateCovariateError and gives no result.
C20_DegenerateFails ==
    (cell = "CUPED" /\ SumProd(hyp.X, hyp.X) = 0) =>
        /\ error = "DegenerateCovariateError"
        /\ stdout = << >>


\* What C21 says of one step: the CUPED cell binds a Y_adj as long as the X
\* and the Y it is made of, and leaves them the arrays it drew; the CUPAC
\* cell binds a Y_adj_cupac as long as the Y_adj and the covariate it is made
\* of, and leaves Y_adj, as X, Y and theta, what it was before the cell.
C21_FrameStep ==
    /\ (cell' = "CUPED" /\ error' = "none") =>
        /\ Len(hyp'.Y_adj) = Len(hyp'.X)
        /\ Len(hyp'.Y_adj) = Len(hyp'.Y)
        /\ \E d \in CupedPairs :
            /\ hyp'.X = d.X
            /\ hyp'.Y = [i \in 1 .. Len(d.X) |-> d.X[i] + d.noise[i]]
    /\ (cell' = "CUPAC" /\ error' = "none") =>
        /\ Len(hyp'.Y_adj_cupac) = Len(hyp.Y_adj)
        /\ Len(hyp'.Y_adj_cupac) = Len(hyp'.covariate)
        /\ hyp'.covariate \in Covariates
        /\ hyp'.Y_adj = hyp.Y_adj
        /\ hyp'.X = hyp.X /\ hyp'.Y = hyp.Y /\ hyp'.theta = hyp.theta

\* C21: every run of the CUPED cell and of the CUPAC cell leaves its input
\* arrays unchanged and binds a new array of the length of its inputs.
C21_Frame == [][C21_FrameStep]_vars

\* The CUPAC cell has bound an adjusted array of three numbers that is not
\* the Y_adj it read.
C21_Witness ==
    /\ cell = "CUPAC" /\ error = "none"
    /\ Len(hyp.Y_adj_cupac) = 3
    /\ \A i \in 1 .. 3 : IsNum(hyp.Y_adj_cupac[i])
    /\ hyp.Y_adj_cupac # hyp.Y_adj

\* The natural logarithms of the positive draws of Metrics, in Micro.
LnKnown == [x \in {1200, 1500, 2100} |-> CASE x = 1200 -> 182322
                                            [] x = 1500 -> 405465
                                            [] x = 2100 -> 741937]

\* The sum of the squares of the numbers of t (Micro) less the square of their
\* sum over their count: the count times the variance (denominator n) of t.
SumSqLessMean(t) ==
    Sum([i \in 1 .. Len(t) |-> MulDiv(t[i], t[i], Micro)])
        - MulDiv(Sum(t), Sum(t), Micro * Len(t))

\* C22: the delta-method cell binds transformed_metric, the logarithm of
\* every element of original_metric, and estimated_variance, the variance
\* (denominator n) of transformed_metric divided by n, the length of
\* original_metric; it prints it to six decimals.  With an element at or
\* below zero the logarithm has no number and estimated_variance is nan.
C22_DeltaVariance ==
    cell = "DeltaMethod" =>
        LET x == hyp.original_metric
            t == hyp.transformed_metric
            n == Len(x)
        IN /\ error = "none"
           /\ Len(t) = n
           /\ \A i \in 1 .. n :
                /\ IsNum(t[i]) <=> x[i] > 0
                /\ x[i] > 0 => Abs(t[i].v - LnKnown[x[i]]) <= 3
           /\ IsNum(hyp.estimated_variance) <=> \A i \in 1 .. n : x[i] > 0
           /\ IsNum(hyp.estimated_variance) =>
                Abs(hyp.estimated_variance.v * n * n - SumSqLessMean(Values(t))) <= n * n + 3
           /\ stdout.estimated_variance = hyp.estimated_variance

\* The delta-method cell has estimated a variance above zero on three
\* positive draws.
C22_Witness ==
    /\ cell = "DeltaMethod"
    /\ Len(hyp.original_metric) = 3
    /\ IsNum(hyp.estimated_variance)
    /\ hyp.estimated_variance.v > 0

\* C23 as stated: on a sample of fewer than 2 elements the t-score cell and
\* the two-means cell, which take the standard deviation and the variance
\* with denominator n - 1, fail with InsufficientDataError and give no
\* result.
C23_InsufficientData ==
    /\ (cell = "TScore" /\ "n" \in DOMAIN ci /\ ci.n < 2) =>
          /\ error = "InsufficientDataError"
          /\ stdout = << >>
    /\ (cell = "TwoMeans" /\ (Len(ci.sample1) < 2 \/ Len(ci.sample2) < 2)) =>
          /\ error = "InsufficientDataError"
          /\ stdout = << >>

\* C25: on paired sequences of equal length the chi-square test fails with
\* DivisionByZeroError and returns nothing exactly when an expected entry is
\* 0, whatever the observed entries are (0 included); otherwise it returns
\* the statistic, which times e is the sum of the (O - E)^2 when every
\* expected entry is e.
C25_ZeroExpected ==
    (cell = "ChiSquare" /\ Len(hyp.observed) = Len(hyp.expected)) =>
        LET O == hyp.observed
            E == hyp.expected
            n == Len(E)
        IN IF \E i \in 1 .. n : E[i] = 0
           THEN error = "DivisionByZeroError" /\ stdout = << >>
           ELSE /\ error = "none"
                /\ IsNum(stdout.statistic)
                /\ (\A i \in 1 .. n : E[i] = E[1]) =>
                      Abs(stdout.statistic.v * E[1]
                          - Sum([i \in 1 .. n |-> (O[i] - E[i]) * (O[i] - E[i]) * Milli]))
                         <= E[1] * n

\* The test has failed on three pairs of which one has both its observed and
\* its expected entry 0, and another an expected entry that is not 0.
C25_Witness ==
    /\ cell = "ChiSquare"
    /\ error = "DivisionByZeroError"
    /\ Len(hyp.observed) = 3 /\ Len(hyp.expected) = 3
    /\ \E i \in 1 .. 3 : hyp.expected[i] = 0 /\ hyp.observed[i] = 0
    /\ \E i \in 1 .. 3 : hyp.expected[i] # 0

\* C26: for sizes n_A, n_B >= 1 and conversions from 0 to the size, the A/B
\* test cell binds a se_diff above zero, and with it a z_score and a p_value
\* that are numbers, exactly when conv_A is strictly between 0 and n_A or
\* conv_B strictly between 0 and n_B; when both proportions are 0 or 1
\* se_diff is zero and z_score is no number.
C26_PositiveSE ==
    cell = "ABTest" =>
        LET inside == \/ (0 < hyp.conv_A /\ hyp.conv_A < hyp.n_A)
                      \/ (0 < hyp.conv_B /\ hyp.conv_B < hyp.n_B)
        IN /\ hyp.n_A >= 1 /\ hyp.n_B >= 1
           /\ hyp.se_diff >= 0
           /\ hyp.se_diff > 0 <=> inside
           /\ inside => IsNum(hyp.z_score) /\ IsNum(hyp.p_value)
           /\ ~inside => hyp.se_diff = 0 /\ ~IsNum(hyp.z_score)

\* The A/B test cell has run on a group without a conversion and a group
\* whose proportion is strictly between 0 and 1.
C26_Witness ==
    /\ cell = "ABTest"
    /\ hyp.conv_A = 0
    /\ 0 < hyp.conv_B /\ hyp.conv_B < hyp.n_B
    /\ hyp.se_diff > 0
    /\ IsNum(hyp.z_score)

\* -f for a float f.
Negated(f) ==
    CASE f.k = "num" -> Num(-f.v)
      [] f.k = "inf" -> Inf(-f.v)
      [] OTHER -> NaN

\* C27: the A/B test on the two groups swapped, (conv_B, n_B) for
\* (conv_A, n_A), gives the negated z_score (nan staying nan), the same
\* p_value and, at the same alpha, the same conclusion as the cell has given.
C27_Symmetric ==
    cell = "ABTest" =>
        LET swapped == ABTest(hyp.n_B, hyp.n_A, hyp.conv_B, hyp.conv_A)
        IN /\ swapped.p_A = hyp.p_B /\ swapped.p_B = hyp.p_A
           /\ swapped.z_score = Negated(hyp.z_score)
           /\ swapped.p_value = hyp.p_value
           /\ Decision(swapped.p_value, hyp.alpha) = stdout.conclusion

\* The A/B test cell has rejected H0 on the groups of the notebook swapped,
\* with a z_score below zero.
C27_Witness ==
    /\ cell = "ABTest"
    /\ hyp.conv_A = ScenarioConvB /\ hyp.conv_B = ScenarioConvA
    /\ IsNum(hyp.z_score) /\ hyp.z_score.v < 0
    /\ stdout.conclusion = REJECT_NULL

\* C28: the adjustment preserves the mean (to the rounding of the fixed
\* point, a unit per element): whenever X is not constant the Y_adj of the
\* CUPED cell sums to what Y sums to, and with the same theta, which is not
\* the coefficient of the covariate, the Y_adj_cupac of the CUPAC cell sums
\* to what Y_adj sums to.
C28_MeanPreserved ==
    /\ (cell = "CUPED" /\ SumProd(hyp.X, hyp.X) > 0) =>
          /\ \A i \in 1 .. Len(hyp.Y_adj) : IsNum(hyp.Y_adj[i])
          /\ Abs(Sum(Values(hyp.Y_adj)) - Sum(hyp.Y)) <= Len(hyp.Y)
          /\ Abs(Mean(Values(hyp.Y_adj)) - Mean(hyp.Y)) <= 1
    /\ (cell = "CUPAC" /\ error = "none" /\ IsNum(hyp.theta)) =>
          /\ \A i \in 1 .. Len(hyp.Y_adj_cupac) : IsNum(hyp.Y_adj_cupac[i])
          /\ Abs(Sum(Values(hyp.Y_adj_cupac)) - Sum(Values(hyp.Y_adj)))
                <= Len(hyp.Y_adj)
          /\ Abs(Mean(Values(hyp.Y_adj_cupac)) - Mean(Values(hyp.Y_adj))) <= 1

\* The CUPED cell has changed every element of a Y of three elements with a
\* theta that is not zero.
C28_Witness ==
    /\ cell = "CUPED"
    /\ Len(hyp.Y) = 3
    /\ IsNum(hyp.theta) /\ hyp.theta.v # 0
    /\ \A i \in 1 .. 3 : IsNum(hyp.Y_adj[i]) /\ hyp.Y_adj[i].v # hyp.Y[i]
====
